---- MODULE Spec2Model ----
(***************************************************************************)
(* A model of FormulaEvaluator (src/src/Engine/FormulaEvaluator.ts): the   *)
(* two-stack evaluator of tokenised spreadsheet formulas.                  *)
(*                                                                         *)
(* A token (TokenType, a string) is a sequence of one-character strings,   *)
(* so that Number(token) can be modelled as the parse it is.  A number is  *)
(* an exact rational [n, d] in lowest terms with d > 0; +Infinity is 1/0   *)
(* and NaN is 0/0.  On the small operands of the model a double and the    *)
(* rational agree on every test the code makes (b === 0, truthiness).      *)
(***************************************************************************)
EXTENDS Integers, Sequences, FiniteSets, TLC

VARIABLES
  pc,              \* position of the evaluator: "idle", "scan", "catch", "done"
  formula,         \* the argument of the running evaluate call
  i,               \* index of the token being scanned (1-based)
  operandsStack,   \* local of evaluate
  operatorsStack,  \* local of evaluate
  _result,         \* FormulaEvaluator._result
  _errorMessage,   \* FormulaEvaluator._errorMessage
  cells,           \* the SheetMemory the evaluator was constructed with
  leftInfinity     \* history: an earlier call returned with result Infinity (SpecReuse)

vars == <<pc, formula, i, operandsStack, operatorsStack, _result, _errorMessage, cells,
          leftInfinity>>

----------------------------------------------------------------------------
(* Bounds of the model *)

\* longest formula (in tokens) that evaluate is called with in Spec
MaxLen == 4
\* longest well-formed formula (in tokens) that evaluate is called with in SpecWF
MaxWFLen == 7
\* longest token (in characters) of the single-token formulas of SpecLex
MaxTokLen == 3
\* longest formula (in tokens) that evaluate is called with in SpecReuse
MaxReuseLen == 3

----------------------------------------------------------------------------
(* Numbers *)

Abs(x) == IF x < 0 THEN -x ELSE x

RECURSIVE GCD(_, _)
GCD(a, b) == IF b = 0 THEN a ELSE GCD(b, a % b)

\* the rational n/d (d # 0) in lowest terms with a positive denominator
Rat(n, d) ==
  LET g == GCD(Abs(n), Abs(d))
      sg == IF d < 0 THEN -1 ELSE 1
  IN [n |-> sg * (n \div g), d |-> sg * (d \div g)]

Int2Num(k) == [n |-> k, d |-> 1]
Infinity == [n |-> 1, d |-> 0]
NaN == [n |-> 0, d |-> 0]

isNaN(v) == v = NaN

NumAdd(a, b) == Rat(a.n * b.d + b.n * a.d, a.d * b.d)
NumSub(a, b) == Rat(a.n * b.d - b.n * a.d, a.d * b.d)
NumMul(a, b) == Rat(a.n * b.n, a.d * b.d)
\* a / b for b # 0
NumDiv(a, b) == Rat(a.n * b.d, a.d * b.n)

\* JavaScript's  v || 0  on a number: 0 and NaN are falsy
OrZero(v) == IF v = Int2Num(0) \/ isNaN(v) THEN Int2Num(0) ELSE v

----------------------------------------------------------------------------
(* Number(token): the StringToNumber conversion, on the characters of the  *)
(* model (digits, sign, point, space, letters A-Z without the letters of   *)
(* a radix prefix, an exponent or "Infinity", and operator characters).    *)

Digits == {"0", "1", "2", "3", "4", "5", "6", "7", "8", "9"}
Letters == {"A", "C", "Z"}

DigitVal(c) ==
  CASE c = "0" -> 0 [] c = "1" -> 1 [] c = "2" -> 2 [] c = "3" -> 3
    [] c = "4" -> 4 [] c = "5" -> 5 [] c = "6" -> 6 [] c = "7" -> 7
    [] c = "8" -> 8 [] c = "9" -> 9

RECURSIVE TrimLeft(_)
TrimLeft(s) == IF s # <<>> /\ Head(s) = " " THEN TrimLeft(Tail(s)) ELSE s

RECURSIVE TrimRight(_)
TrimRight(s) ==
  IF s # <<>> /\ s[Len(s)] = " " THEN TrimRight(SubSeq(s, 1, Len(s) - 1)) ELSE s

AllDigits(s) == \A k \in 1..Len(s) : s[k] \in Digits

RECURSIVE DigitsVal(_)
DigitsVal(s) ==
  IF s = <<>> THEN 0 ELSE 10 * DigitsVal(SubSeq(s, 1, Len(s) - 1)) + DigitVal(s[Len(s)])

RECURSIVE Pow10(_)
Pow10(k) == IF k = 0 THEN 1 ELSE 10 * Pow10(k - 1)

\* an unsigned StrDecimalLiteral: digits, digits "." [digits], or "." digits
UnsignedDecimal(s) ==
  LET dots == {k \in 1..Len(s) : s[k] = "."}
  IN IF dots = {}
       THEN IF s # <<>> /\ AllDigits(s) THEN Int2Num(DigitsVal(s)) ELSE NaN
       ELSE LET p == CHOOSE k \in dots : \A j \in dots : k <= j
                ip == SubSeq(s, 1, p - 1)
                fp == SubSeq(s, p + 1, Len(s))
            IN IF AllDigits(ip) /\ AllDigits(fp) /\ Len(ip) + Len(fp) >= 1
                 THEN Rat(DigitsVal(ip) * Pow10(Len(fp)) + DigitsVal(fp), Pow10(Len(fp)))
                 ELSE NaN

Number(token) ==
  LET s == TrimRight(TrimLeft(token))
  IN IF s = <<>> THEN Int2Num(0)
     ELSE IF Head(s) = "+" THEN UnsignedDecimal(Tail(s))
     ELSE IF Head(s) = "-"
       THEN LET u == UnsignedDecimal(Tail(s)) IN IF isNaN(u) THEN NaN ELSE Rat(-u.n, u.d)
     ELSE UnsignedDecimal(s)

isNumber(token) == ~isNaN(Number(token))

----------------------------------------------------------------------------
(* Tokens *)

One == <<"1">>
Two == <<"2">>
Four == <<"4">>
Zero == <<"0">>
Plus == <<"+">>
Minus == <<"-">>
Star == <<"*">>
Slash == <<"/">>
LParen == <<"(">>
RParen == <<")">>
Percent == <<"%">>
A1 == <<"A", "1">>
C2 == <<"C", "2">>
\* what Array.prototype.pop returns on an empty array
undefined == <<"undefined">>

----------------------------------------------------------------------------
(* Collaborators: GlobalDefinitions.ErrorMessages, Cell, SheetMemory *)

emptyFormula == "empty formula"
invalidFormula == "invalid formula"
invalidCell == "invalid cell"
invalidOperator == "invalid operator"
missingParentheses == "missing parentheses"
divideByZero == "divide by zero"

\* Cell.isValidCellLabel: one or more letters followed by one or more digits
CellIsValidCellLabel(token) ==
  \E p \in 1..(Len(token) - 1) :
    /\ \A k \in 1..p : token[k] \in Letters
    /\ \A k \in (p + 1)..Len(token) : token[k] \in Digits

\* the labels SheetMemory holds a cell for
KnownLabels == {A1}

\* SheetMemory.isValidCellLabel
MemoryIsValidCellLabel(token) == token \in KnownLabels

\* what a Cell can hold: getFormula(), getValue(), getError() are set
\* independently of each other by the cell's owner
CellStates ==
  { [formula |-> f, value |-> IF f = <<>> THEN Int2Num(0) ELSE Number(f[1]), error |-> e] :
      f \in {<<>>, <<Two>>}, e \in {"", emptyFormula, divideByZero} }

\* the cell storages of the model: A1 holds any cell; C2 is a well-formed
\* label the storage does not know
SheetMemories == [KnownLabels -> CellStates]

----------------------------------------------------------------------------
(* FormulaEvaluator *)

isCellReference(token) == CellIsValidCellLabel(token)

\* getCellValue with the emptiness check made before the error check
getCellValueEmptinessFirst(token) ==
  IF ~MemoryIsValidCellLabel(token) THEN <<Int2Num(0), invalidCell>>
  ELSE LET cell == cells[token]
       IN IF Len(cell.formula) = 0 THEN <<Int2Num(0), invalidCell>>
          ELSE IF cell.error # "" /\ cell.error # emptyFormula
            THEN <<Int2Num(0), cell.error>>
          ELSE <<cell.value, "">>

\* getCellValue with "empty formula" treated as any other stored error
getCellValueAnyError(token) ==
  IF ~MemoryIsValidCellLabel(token) THEN <<Int2Num(0), invalidCell>>
  ELSE LET cell == cells[token]
       IN IF cell.error # "" THEN <<Int2Num(0), cell.error>>
          ELSE IF Len(cell.formula) = 0 THEN <<Int2Num(0), invalidCell>>
          ELSE <<cell.value, "">>

\* getCellValue(token): <<value, error>>
getCellValue(token) ==
  IF ~MemoryIsValidCellLabel(token) THEN <<Int2Num(0), invalidCell>>
  ELSE LET cell == cells[token]
       IN IF cell.error # "" /\ cell.error # emptyFormula THEN <<Int2Num(0), cell.error>>
          ELSE IF Len(cell.formula) = 0 THEN <<Int2Num(0), invalidCell>>
          ELSE <<cell.value, "">>

precedence(op) ==
  CASE op = Plus -> 1
    [] op = Minus -> 1
    [] op = Star -> 2
    [] op = Slash -> 2
    [] OTHER -> 0

Top(stack) == IF stack = <<>> THEN undefined ELSE stack[Len(stack)]
Pop(stack) == IF stack = <<>> THEN <<>> ELSE SubSeq(stack, 1, Len(stack) - 1)

\* the state of one evaluator as a record, so that a step is a function
Cur ==
  [pc |-> pc, formula |-> formula, i |-> i, operandsStack |-> operandsStack,
   operatorsStack |-> operatorsStack, _result |-> _result, _errorMessage |-> _errorMessage]

Becomes(s) ==
  /\ pc' = s.pc
  /\ formula' = s.formula
  /\ i' = s.i
  /\ operandsStack' = s.operandsStack
  /\ operatorsStack' = s.operatorsStack
  /\ _result' = s._result
  /\ _errorMessage' = s._errorMessage
  /\ UNCHANGED cells

\* a throw inside the try block: control moves to the catch clause
Throw(s) == [s EXCEPT !.pc = "catch"]

\* compute(operandsStack, operatorsStack)
compute(s) ==
  LET op == Top(s.operatorsStack)
      s1 == [s EXCEPT !.operatorsStack = Pop(s.operatorsStack)]
  IN IF Len(s.operandsStack) < 2 THEN Throw(s1)
     ELSE LET n == Len(s.operandsStack)
              b == OrZero(s.operandsStack[n])
              a == OrZero(s.operandsStack[n - 1])
              rest == SubSeq(s.operandsStack, 1, n - 2)
              s2 == [s1 EXCEPT !.operandsStack = rest]
          IN CASE op = Plus -> [s2 EXCEPT !.operandsStack = Append(rest, NumAdd(a, b))]
               [] op = Minus -> [s2 EXCEPT !.operandsStack = Append(rest, NumSub(a, b))]
               [] op = Star -> [s2 EXCEPT !.operandsStack = Append(rest, NumMul(a, b))]
               [] op = Slash ->
                    IF b = Int2Num(0)
                      THEN Throw([s2 EXCEPT !._errorMessage = divideByZero,
                                            !._result = Infinity])
                      ELSE [s2 EXCEPT !.operandsStack = Append(rest, NumDiv(a, b))]
               [] OTHER -> Throw([s2 EXCEPT !._errorMessage = invalidOperator])

\* the fields as the constructor leaves them
Constructed ==
  [pc |-> "idle", formula |-> <<>>, i |-> 0, operandsStack |-> <<>>,
   operatorsStack |-> <<>>, _result |-> Int2Num(0), _errorMessage |-> ""]

\* the reset of evaluate with the error message left as it was
ResetFieldsResultOnly(s) == [s EXCEPT !._result = Int2Num(0)]

\* evaluate, lines 27-28: both fields are overwritten
ResetFields(s) == [s EXCEPT !._result = Int2Num(0), !._errorMessage = ""]

\* evaluate(f) from its entry to the start of the scan (or to its return, for
\* a formula of fewer than two tokens)
EvaluateEntry(s, f) ==
  LET r == [ResetFields(s) EXCEPT !.formula = f]
      done == [r EXCEPT !.pc = "done"]
  IN IF Len(f) = 0 THEN [done EXCEPT !._errorMessage = emptyFormula]
     ELSE IF Len(f) = 1
       THEN IF isNumber(f[1]) THEN [done EXCEPT !._result = Number(f[1])]
            ELSE IF isCellReference(f[1])
              THEN LET cv == getCellValue(f[1])
                   IN IF cv[2] # "" THEN [done EXCEPT !._errorMessage = cv[2]]
                      ELSE [done EXCEPT !._result = cv[1]]
            ELSE [done EXCEPT !._errorMessage = invalidFormula]
     ELSE [r EXCEPT !.pc = "scan", !.i = 1, !.operandsStack = <<>>,
                    !.operatorsStack = <<>>]

Scanning(s) == s.pc = "scan" /\ s.i <= Len(s.formula)
Draining(s) == s.pc = "scan" /\ s.i > Len(s.formula)
Token(s) == s.formula[s.i]
Advance(s) == [s EXCEPT !.i = s.i + 1]

IsOperatorToken(token) ==
  ~isNumber(token) /\ ~isCellReference(token) /\ token # LParen /\ token # RParen

\* lines 76-77
StepNumber(s) == Advance([s EXCEPT !.operandsStack = Append(@, Number(Token(s)))])

\* lines 78-85: a failed reference returns from evaluate
StepCellRef(s) ==
  LET cv == getCellValue(Token(s))
  IN IF cv[2] # "" THEN [s EXCEPT !._errorMessage = cv[2], !.pc = "done"]
     ELSE Advance([s EXCEPT !.operandsStack = Append(@, cv[1])])

\* lines 87-89
StepOpenParen(s) == Advance([s EXCEPT !.operatorsStack = Append(@, Token(s))])

\* lines 91-96: one turn of the loop, or its exit and the pop
CloseParenLoops(s) == s.operatorsStack # <<>> /\ Top(s.operatorsStack) # LParen
StepCloseParen(s) ==
  IF CloseParenLoops(s) THEN compute(s)
  ELSE Advance([s EXCEPT !.operatorsStack = Pop(@)])

\* the loop condition with > for >=: equal precedence is not applied first
OperatorLoopsStrict(s) ==
  s.operatorsStack # <<>> /\ precedence(Top(s.operatorsStack)) > precedence(Token(s))

\* lines 98-106: one turn of the loop, or its exit and the push
OperatorLoops(s) ==
  s.operatorsStack # <<>> /\ precedence(Top(s.operatorsStack)) >= precedence(Token(s))
StepOperator(s) ==
  IF OperatorLoops(s) THEN compute(s)
  ELSE Advance([s EXCEPT !.operatorsStack = Append(@, Token(s))])

\* a drain loop that reports the open parenthesis and leaves it on the stack
StepDrainKeepsOpenParen(s) ==
  IF Top(s.operatorsStack) = LParen
    THEN [s EXCEPT !._errorMessage = missingParentheses]
    ELSE compute(s)

\* lines 110-115: one turn of the drain loop
StepDrain(s) ==
  IF Top(s.operatorsStack) = LParen
    THEN compute([s EXCEPT !._errorMessage = missingParentheses])
    ELSE compute(s)

\* lines 117-123
StepFinalCheck(s) ==
  IF Len(s.operandsStack) # 1
    THEN Throw([s EXCEPT !._errorMessage = invalidFormula])
    ELSE [s EXCEPT !._result = OrZero(Top(s.operandsStack)),
                   !.operandsStack = Pop(@), !.pc = "done"]

\* a catch clause that defaults the error and salvages nothing
StepCatchNoSalvage(s) ==
  LET s1 == IF s._errorMessage = "" THEN [s EXCEPT !._errorMessage = invalidFormula] ELSE s
  IN [s1 EXCEPT !.pc = "done"]

\* lines 124-132
StepCatch(s) ==
  LET s1 == IF s._errorMessage = "" THEN [s EXCEPT !._errorMessage = invalidFormula] ELSE s
      s2 == IF Len(s1.operandsStack) = 1 THEN [s1 EXCEPT !._result = s1.operandsStack[1]] ELSE s1
  IN [s2 EXCEPT !.pc = "done"]

\* evaluate has returned: its locals are gone, the fields stay
StepReturn(s) ==
  [s EXCEPT !.pc = "idle", !.formula = <<>>, !.i = 0, !.operandsStack = <<>>,
            !.operatorsStack = <<>>]

----------------------------------------------------------------------------
(* Which step a running evaluate takes next *)

AtNumber(s) == Scanning(s) /\ isNumber(Token(s))
AtCellRef(s) == Scanning(s) /\ ~isNumber(Token(s)) /\ isCellReference(Token(s))
AtOpenParen(s) ==
  Scanning(s) /\ ~isNumber(Token(s)) /\ ~isCellReference(Token(s)) /\ Token(s) = LParen
AtCloseParen(s) ==
  Scanning(s) /\ ~isNumber(Token(s)) /\ ~isCellReference(Token(s)) /\ Token(s) = RParen
AtOperator(s) == Scanning(s) /\ IsOperatorToken(Token(s))
AtDrain(s) == Draining(s) /\ s.operatorsStack # <<>>
AtFinalCheck(s) == Draining(s) /\ s.operatorsStack = <<>>
AtCatch(s) == s.pc = "catch"

StepOf(s) ==
  CASE AtNumber(s) -> StepNumber(s)
    [] AtCellRef(s) -> StepCellRef(s)
    [] AtOpenParen(s) -> StepOpenParen(s)
    [] AtCloseParen(s) -> StepCloseParen(s)
    [] AtOperator(s) -> StepOperator(s)
    [] AtDrain(s) -> StepDrain(s)
    [] AtFinalCheck(s) -> StepFinalCheck(s)
    [] AtCatch(s) -> StepCatch(s)

\* evaluate run from s to its return
RECURSIVE Run(_)
Run(s) == IF s.pc = "done" THEN s ELSE Run(StepOf(s))

\* <<result, error>> of a newly constructed evaluator after evaluate(f)
FreshOutcome(f) ==
  LET r == Run(EvaluateEntry(Constructed, f))
  IN <<r._result, r._errorMessage>>

----------------------------------------------------------------------------
(* The formulas evaluate is called with *)

Tokens == {One, Zero, Plus, Slash, LParen, RParen, Percent, A1, C2}

SeqsUpTo(S, n) == UNION {[1..k -> S] : k \in 0..n}

Formulas == SeqsUpTo(Tokens, MaxLen)

ReuseFormulas == SeqsUpTo(Tokens, MaxReuseLen)

----------------------------------------------------------------------------
(* Actions *)

EvaluateFrom(F) ==
  /\ pc = "idle"
  /\ \E f \in F : Becomes(EvaluateEntry(Cur, f))
  /\ UNCHANGED leftInfinity

Evaluate == EvaluateFrom(Formulas)

ScanNumber == AtNumber(Cur) /\ Becomes(StepNumber(Cur)) /\ UNCHANGED leftInfinity

ScanCellRef == AtCellRef(Cur) /\ Becomes(StepCellRef(Cur)) /\ UNCHANGED leftInfinity

ScanOpenParen == AtOpenParen(Cur) /\ Becomes(StepOpenParen(Cur)) /\ UNCHANGED leftInfinity

ScanCloseParen == AtCloseParen(Cur) /\ Becomes(StepCloseParen(Cur)) /\ UNCHANGED leftInfinity

ScanOperator == AtOperator(Cur) /\ Becomes(StepOperator(Cur)) /\ UNCHANGED leftInfinity

Drain == AtDrain(Cur) /\ Becomes(StepDrain(Cur)) /\ UNCHANGED leftInfinity

FinalCheck == AtFinalCheck(Cur) /\ Becomes(StepFinalCheck(Cur)) /\ UNCHANGED leftInfinity

Catch == AtCatch(Cur) /\ Becomes(StepCatch(Cur)) /\ UNCHANGED leftInfinity

\* the steps of a running evaluate call
Step ==
  \/ ScanNumber
  \/ ScanCellRef
  \/ ScanOpenParen
  \/ ScanCloseParen
  \/ ScanOperator
  \/ Drain
  \/ FinalCheck
  \/ Catch

Init ==
  /\ cells \in SheetMemories
  /\ leftInfinity = FALSE
  /\ pc = Constructed.pc
  /\ formula = Constructed.formula
  /\ i = Constructed.i
  /\ operandsStack = Constructed.operandsStack
  /\ operatorsStack = Constructed.operatorsStack
  /\ _result = Constructed._result
  /\ _errorMessage = Constructed._errorMessage

\* Spec: one evaluate call on a newly constructed evaluator
Next == Evaluate \/ Step

Spec == Init /\ [][Next]_vars

----------------------------------------------------------------------------
(* SpecReuse: one instance called again and again, the calls told apart *)

EvaluateReuse == EvaluateFrom(ReuseFormulas)

Return ==
  /\ pc = "done"
  /\ Becomes(StepReturn(Cur))
  /\ leftInfinity' = (leftInfinity \/ _result = Infinity)

NextReuse == EvaluateReuse \/ Step \/ Return

SpecReuse == Init /\ [][NextReuse]_vars

----------------------------------------------------------------------------
(* Claims checked under Spec *)

\* the state in which the running evaluate call returns
End == Run(Cur)

Range(seq) == {seq[k] : k \in 1..Len(seq)}

\* a compute step has just thrown on a division by zero
DivisionByZeroThrown == pc = "catch" /\ _errorMessage = divideByZero

\* C2: when a division with a zero divisor is applied, evaluate ends with
\* error "divide by zero" and result +Infinity, whatever is left on the
\* operand stack.
C2_DivideByZeroGivesInfinity ==
  DivisionByZeroThrown =>
    End._errorMessage = divideByZero /\ End._result = Infinity

\* the drain loop is about to handle an open parenthesis
DrainFindsOpenParen == AtDrain(Cur) /\ Top(operatorsStack) = LParen

\* C3: when the drain phase finds an open parenthesis on top of the operator
\* stack, evaluate ends with error "missing parentheses".
C3_UnmatchedOpenParenReported ==
  DrainFindsOpenParen => End._errorMessage = missingParentheses

\* token names a cell the storage holds whose stored error is a genuine one
RefersToCellInError(token) ==
  /\ ~isNumber(token)
  /\ isCellReference(token)
  /\ MemoryIsValidCellLabel(token)
  /\ cells[token].error # ""
  /\ cells[token].error # emptyFormula

\* C4, as claimed: whenever the formula contains a reference to a valid cell
\* with a genuine stored error, evaluate ends with that cell's error.
C4_AnyReferenceInErrorPropagates ==
  pc = "done" =>
    \A k \in 1..Len(formula) :
      RefersToCellInError(formula[k]) => _errorMessage = cells[formula[k]].error

\* C4, amended: when evaluate resolves such a reference (the only token of a
\* one-token formula, or a token the scan reaches), it ends with exactly that
\* cell's stored error.
C4_ResolvedReferenceInErrorPropagates ==
  /\ (AtCellRef(Cur) /\ RefersToCellInError(Token(Cur)))
       => End._errorMessage = cells[Token(Cur)].error
  /\ (pc = "done" /\ Len(formula) = 1 /\ RefersToCellInError(formula[1]))
       => _errorMessage = cells[formula[1]].error

\* C4 witness: the scan reached a reference in error after pushing an operand
C4_Witness ==
  /\ pc = "done"
  /\ Len(formula) >= 2
  /\ i \in 2..Len(formula)
  /\ RefersToCellInError(formula[i])
  /\ operandsStack # <<>>
  /\ _errorMessage = cells[formula[i]].error

\* the scan is at a reference to a cell the storage holds, whose stored error
\* is "empty formula"
AtEmptyFormulaCell ==
  /\ AtCellRef(Cur)
  /\ MemoryIsValidCellLabel(Token(Cur))
  /\ cells[Token(Cur)].error = emptyFormula

\* C5, as claimed: a reference to a valid cell whose stored error is "empty
\* formula" resolves to value 0 with error "invalid cell".
C5_EmptyFormulaErrorIsInvalidCell ==
  AtEmptyFormulaCell => getCellValue(Token(Cur)) = <<Int2Num(0), invalidCell>>

\* C5, amended: it resolves to (0, "invalid cell") when the cell's stored
\* formula is empty, and to the cell's value with no error when it is not;
\* "empty formula" itself is never propagated.
C5_EmptyFormulaErrorByStoredFormula ==
  AtEmptyFormulaCell =>
    LET cell == cells[Token(Cur)]
    IN getCellValue(Token(Cur)) =
         IF cell.formula = <<>> THEN <<Int2Num(0), invalidCell>> ELSE <<cell.value, "">>

\* C5 witness: the scan is at a reference to an empty cell marked "empty formula"
C5_Witness ==
  /\ AtEmptyFormulaCell
  /\ cells[Token(Cur)].formula = <<>>
  /\ operandsStack # <<>>

\* the scan is at a cell reference that fails to resolve
ReferenceFails == AtCellRef(Cur) /\ getCellValue(Token(Cur))[2] # ""

\* a compute step or the final check has thrown, not on a division by zero
ThrownNotDivision == pc = "catch" /\ _errorMessage # divideByZero

Salvaged == End._result = operandsStack[1] /\ End._errorMessage # ""

\* C6, as claimed: at a failure other than divide by zero (a reference that
\* fails to resolve included) with exactly one value on the operand stack,
\* evaluate returns that value as result, with a non-empty error.
C6_SalvageAtEveryFailure ==
  /\ (ThrownNotDivision /\ Len(operandsStack) = 1) => Salvaged
  /\ (ReferenceFails /\ getCellValue(Token(Cur))[2] # divideByZero
        /\ Len(operandsStack) = 1) => Salvaged

\* C6, amended: the salvage applies to a failure of a compute step or of the
\* final check; a reference that fails to resolve returns at once with
\* result 0 and the resolver's error.
C6_SalvageAtThrownFailure ==
  /\ (ThrownNotDivision /\ Len(operandsStack) = 1) => Salvaged
  /\ ReferenceFails =>
       End._result = Int2Num(0) /\ End._errorMessage = getCellValue(Token(Cur))[2]

\* C6 witness: a throw with one non-zero operand left and result still 0
C6_Witness ==
  /\ ThrownNotDivision
  /\ Len(operandsStack) = 1
  /\ operandsStack[1] # Int2Num(0)
  /\ _result = Int2Num(0)

\* C9: when a close parenthesis is scanned while the operator stack holds no
\* open parenthesis, evaluate ends with a non-empty error.
C9_UnmatchedCloseParenReported ==
  (AtCloseParen(Cur) /\ LParen \notin Range(operatorsStack)) => End._errorMessage # ""

----------------------------------------------------------------------------
(* Termination, and the claim checked under SpecReuse *)

Running(s) == s.pc \in {"scan", "catch"}

CanStep(s) ==
  \/ AtNumber(s) \/ AtCellRef(s) \/ AtOpenParen(s) \/ AtCloseParen(s)
  \/ AtOperator(s) \/ AtDrain(s) \/ AtFinalCheck(s) \/ AtCatch(s)

\* the next step of the running call is a turn of one of the three loops,
\* that is, a call of compute
CallsCompute(s) ==
  \/ AtCloseParen(s) /\ CloseParenLoops(s)
  \/ AtOperator(s) /\ OperatorLoops(s)
  \/ AtDrain(s)

\* what is left to do: two per token still to scan, one per stacked operator,
\* then the final check and the catch clause
Variant(s) ==
  CASE s.pc = "scan" -> 2 * (Len(s.formula) + 1 - s.i) + Len(s.operatorsStack) + 2
    [] s.pc = "catch" -> 1
    [] OTHER -> 0

\* C8: every evaluate call terminates: a running call always has a next step,
\* every step brings it strictly nearer to its return (so no loop turns for
\* ever), and every compute call takes one entry off the operator stack,
\* whether it returns or throws.
C8_EvaluateTerminates ==
  Running(Cur) =>
    /\ CanStep(Cur)
    /\ LET next == StepOf(Cur)
       IN /\ Variant(next) < Variant(Cur)
          /\ Variant(next) >= 0
          /\ CallsCompute(Cur) =>
               Len(next.operatorsStack) = Len(operatorsStack) - 1

\* C8 witness: the drain loop met an unmatched open parenthesis and the call went on to
\* its catch clause
C8_Witness ==
  /\ pc = "catch"
  /\ formula[1] = LParen
  /\ _errorMessage = missingParentheses
  /\ Len(formula) >= 3

\* C7: whatever calls came before, an evaluate call returns with the result
\* and error a newly constructed evaluator gives for the same formula.
C7_NoStateLeaksBetweenCalls ==
  pc = "done" => <<_result, _errorMessage>> = FreshOutcome(formula)

\* C7 witness: a call returns without error after an earlier call left Infinity behind
C7_Witness ==
  /\ pc = "done"
  /\ leftInfinity
  /\ formula = <<One, Plus, One>>
  /\ _errorMessage = ""
  /\ _result = Int2Num(2)

----------------------------------------------------------------------------
(* SpecWF: one call with a well-formed formula of numeric literals, the    *)
(* four operators and balanced parentheses                                 *)

WFNumbers == {One, Two, Four}
WFOperators == {Plus, Minus, Star, Slash}

RECURSIVE WFOfLen(_)
WFOfLen(n) ==
  IF n = 1 THEN {<<t>> : t \in WFNumbers}
  ELSE IF n < 1 THEN {}
  ELSE {<<LParen>> \o e \o <<RParen>> : e \in WFOfLen(n - 2)}
       \cup UNION { {a \o <<op>> \o b :
                       a \in WFOfLen(j), b \in WFOfLen(n - 1 - j), op \in WFOperators} :
                    j \in 1..(n - 2) }

WellFormed == UNION {WFOfLen(n) : n \in 1..MaxWFLen}

EvaluateWF == EvaluateFrom(WellFormed)

\* no token of a well-formed formula is a reference: the storage plays no part
InitWF == Init /\ cells[A1] = [formula |-> <<>>, value |-> Int2Num(0), error |-> ""]

NextWF ==
  \/ EvaluateWF
  \/ ScanNumber
  \/ ScanOpenParen
  \/ ScanCloseParen
  \/ ScanOperator
  \/ Drain
  \/ FinalCheck
  \/ Catch

SpecWF == InitWF /\ [][NextWF]_vars

\* The conventional value of a well-formed formula, by structure: the
\* rightmost + or - outside all parentheses splits it, else the rightmost * or
\* /, else it is a parenthesised formula or a literal.  ok is FALSE when a
\* division in it is by zero or is not exact.
ParenDepth(e, k) ==
  Cardinality({j \in 1..(k - 1) : e[j] = LParen})
    - Cardinality({j \in 1..(k - 1) : e[j] = RParen})

Outermost(e, ops) == {k \in 1..Len(e) : e[k] \in ops /\ ParenDepth(e, k) = 0}

Last(S) == CHOOSE k \in S : \A j \in S : j <= k

ApplyOp(op, l, r) ==
  IF ~l.ok \/ ~r.ok THEN [ok |-> FALSE, v |-> 0]
  ELSE CASE op = Plus -> [ok |-> TRUE, v |-> l.v + r.v]
         [] op = Minus -> [ok |-> TRUE, v |-> l.v - r.v]
         [] op = Star -> [ok |-> TRUE, v |-> l.v * r.v]
         [] op = Slash ->
              IF r.v = 0 \/ Abs(l.v) % Abs(r.v) # 0 THEN [ok |-> FALSE, v |-> 0]
              ELSE [ok |-> TRUE,
                    v |-> (IF (l.v < 0) = (r.v < 0) THEN 1 ELSE -1)
                            * (Abs(l.v) \div Abs(r.v))]

RECURSIVE ExprValue(_)
ExprValue(e) ==
  LET add == Outermost(e, {Plus, Minus})
      mul == Outermost(e, {Star, Slash})
      split(k) == ApplyOp(e[k], ExprValue(SubSeq(e, 1, k - 1)),
                          ExprValue(SubSeq(e, k + 1, Len(e))))
  IN IF add # {} THEN split(Last(add))
     ELSE IF mul # {} THEN split(Last(mul))
     ELSE IF e[1] = LParen THEN ExprValue(SubSeq(e, 2, Len(e) - 1))
     ELSE [ok |-> TRUE, v |-> DigitsVal(e[1])]

\* C1: a well-formed formula of two or more tokens, every division of which
\* is exact and by a non-zero divisor, evaluates without error to its
\* conventional value.
C1_WellFormedValue ==
  (pc = "done" /\ Len(formula) >= 2 /\ ExprValue(formula).ok) =>
    _errorMessage = "" /\ _result = Int2Num(ExprValue(formula).v)

\* C1 witness: both precedences and a left-to-right subtraction in one formula
C1_Witness ==
  /\ pc = "done"
  /\ formula = <<Four, Minus, Two, Minus, One, Star, Two>>
  /\ _errorMessage = ""
  /\ _result = Int2Num(0)

----------------------------------------------------------------------------
(* SpecLex: one call with a one-token formula, the token any short string  *)

LexChars == {"1", "0", "-", ".", " ", "A"}

TokenStrings == SeqsUpTo(LexChars, MaxTokLen)

EvaluateLex == EvaluateFrom({<<t>> : t \in TokenStrings})

NextLex == EvaluateLex

SpecLex == Init /\ [][NextLex]_vars

\* a finite decimal numeric literal: an optional sign, digits, and an optional
\* fractional part
IsDecimalLiteral(t) ==
  \E sg \in {0, 1} : \E p \in (sg + 1)..Len(t) :
    /\ sg = 1 => t[1] \in {"+", "-"}
    /\ \A k \in (sg + 1)..p : t[k] \in Digits
    /\ \/ p = Len(t)
       \/ /\ p + 2 <= Len(t)
          /\ t[p + 1] = "."
          /\ \A k \in (p + 2)..Len(t) : t[k] \in Digits

\* C10: isNumber holds exactly of the finite decimal literals, so that a
\* token that is none (the empty string, say) is not accepted as the value of
\* a single-token formula.
C10_IsNumberIsDecimalLiteral ==
  (pc = "done" /\ Len(formula) = 1) =>
    /\ isNumber(formula[1]) <=> IsDecimalLiteral(formula[1])
    /\ (~IsDecimalLiteral(formula[1]) /\ ~isCellReference(formula[1]))
         => _errorMessage = invalidFormula

====
